---- MODULE Spec2Model ----
(***************************************************************************)
(* A model of two components of the repository:                            *)
(*   - airbyte-ci's connector selection (cdk_java/commands.py): the pure   *)
(*     filter get_selected_connectors_with_modified_files, the secrets     *)
(*     policy should_use_remote_secrets and the connectors command;        *)
(*   - source-amazon-ads' Sponsored Products streams                       *)
(*     (streams/sponsored_products.py): request bodies, pagination tokens, *)
(*     response handling and the ad-group slices.                          *)
(* Python's None is the string "None"; a path is the sequence of its       *)
(* components; a tuple or set of strings is a set.                         *)
(***************************************************************************)
EXTENDS Integers, Sequences, FiniteSets, TLC

VARIABLES
    sel_pc,       \* selection filter: "ready" before the call, "returned" after
    sel_args,     \* selection filter: the arguments of the call
    sel_result,   \* selection filter: the returned ConnectorWithModifiedFiles
    cmd_pc,       \* connectors command: the step the invocation is at
    cmd_ctx,      \* connectors command: ctx.obj as click built it from the flags
    cmd_env,      \* connectors command: the environment variables, and whether .git is a directory
    cmd_out,      \* connectors command: what the invocation wrote to ctx.obj, or the error raised
    cmd_trace,    \* connectors command: the calls made so far, in order
    st_pc,        \* stream read: "slices", "send", "parse", "done" or "failed"
    st_cfg,       \* stream read: the stream, its config and the server's data
    st_slice,     \* stream read: the current stream slice
    st_slice_no,  \* stream read: the number of slices taken so far
    st_token,     \* stream read: next_page_token of the current slice
    st_response,  \* stream read: the response waiting to be parsed
    st_ag,        \* stream read: the ad-groups read that stream_slices iterates
    st_requests,  \* stream read: the requests issued so far, in order
    st_parsed,    \* stream read: what handling each response did, in order
    st_yielded,   \* stream read: the records the stream yielded, in order
    st_slices,    \* stream read: the slices stream_slices yielded, in order
    st_faults     \* stream read: the responses so far that were not a 200 with a JSON body

selVars == <<sel_pc, sel_args, sel_result>>

cmdVars == <<cmd_pc, cmd_ctx, cmd_env, cmd_out, cmd_trace>>

stVars == <<st_pc, st_cfg, st_slice, st_slice_no, st_token, st_response, st_ag,
            st_requests, st_parsed, st_yielded, st_slices, st_faults>>

vars == <<sel_pc, sel_args, sel_result, cmd_pc, cmd_ctx, cmd_env, cmd_out, cmd_trace,
          st_pc, st_cfg, st_slice, st_slice_no, st_token, st_response, st_ag,
          st_requests, st_parsed, st_yielded, st_slices, st_faults>>

None == "None"

(***************************************************************************)
(* Bounds of the model.                                                    *)
(***************************************************************************)
\* largest number of values given to one of --name, --support-level, --language
MaxSelected == 1
\* largest number of files in the set of modified files
MaxModifiedFiles == 2
\* largest number of pages the server holds for one list of a stream
MaxPages == 2
\* largest number of ad groups the server holds
MaxAdGroups == 3
\* number of ad groups the server puts on one page
AdGroupsPerPage == 2
\* largest number of responses of one read that are not a 200 with a JSON body
MaxFaults == 1
\* largest number of requests of one read
MaxRequests == 8

(***************************************************************************)
(* The connector registry (ALL_CONNECTORS) and the repository's files.     *)
(***************************************************************************)
METADATA_FILE_NAME == "metadata.yaml"

ConnectorA ==
    [technical_name |-> "source-a",
     relative_connector_path |-> <<"connectors", "source-a">>,
     language |-> "python", support_level |-> "certified",
     metadata |-> [connectorSubtype |-> "api"],
     changelog_entry_files |-> {<<"connectors", "source-a", ".changelog_entries", "1.md">>},
     local_dependency_paths |-> {}]

ConnectorB ==
    [technical_name |-> "source-b",
     relative_connector_path |-> <<"connectors", "source-b">>,
     language |-> "java", support_level |-> "community",
     metadata |-> [connectorSubtype |-> "database"],
     changelog_entry_files |-> {},
     local_dependency_paths |-> {<<"cdk", "java">>}]

ConnectorC ==
    [technical_name |-> "destination-c",
     relative_connector_path |-> <<"connectors", "destination-c">>,
     language |-> "python", support_level |-> "community",
     metadata |-> [connectorSubtype |-> "api"],
     changelog_entry_files |-> {},
     local_dependency_paths |-> {}]

ALL_CONNECTORS == {ConnectorA, ConnectorB, ConnectorC}

\* the names, support levels and languages a user may type: each universe
\* holds one value that no connector of the registry has
NameUniverse == {"source-a", "source-b", "destination-c", "source-ghost"}
SupportLevelUniverse == {"certified", "community", "archived"}
LanguageUniverse == {"python", "java", "low-code"}

\* a metadata query is modelled as one comparison, metadata[key] == value;
\* the empty query string is the record with an empty key
NoQuery == [key |-> "", value |-> ""]
QueryUniverse ==
    {NoQuery,
     [key |-> "connectorSubtype", value |-> "api"],
     [key |-> "connectorSubtype", value |-> "file"]}

RepoFiles ==
    {<<"connectors", "source-a", "metadata.yaml">>,
     <<"connectors", "source-a", "main.py">>,
     <<"connectors", "source-b", "metadata.yaml">>,
     <<"cdk", "java", "build.gradle">>,
     <<"docs", "metadata.yaml">>}

BoundedSubsets(S, n) == {x \in SUBSET S : Cardinality(x) <= n}

(***************************************************************************)
(* Helpers of pipelines.helpers.connectors.modifed and connector_ops.      *)
(***************************************************************************)
\* Path.is_relative_to: dir is a prefix of path, component by component
IsRelativeTo(path, dir) ==
    /\ Len(dir) <= Len(path)
    /\ SubSeq(path, 1, Len(dir)) = dir

\* the modified files that lie under the connector's own directory
get_connector_modified_files(connector, modified_files) ==
    {f \in modified_files : IsRelativeTo(f, connector.relative_connector_path)}

\* a connector is modified when a changed file lies under its path or, with
\* dependency scanning, under one of its local dependencies
get_modified_connectors(modified_files, all_connectors, dependency_scanning) ==
    {c \in all_connectors :
        \E f \in modified_files :
            \/ IsRelativeTo(f, c.relative_connector_path)
            \/ /\ dependency_scanning
               /\ \E d \in c.local_dependency_paths : IsRelativeTo(f, d)}

\* ConnectorWithModifiedFiles.has_metadata_change
has_metadata_change(cwmf) ==
    \E f \in cwmf.modified_files : f[Len(f)] = METADATA_FILE_NAME

\* Connector.metadata_query_match
metadata_query_match(connector, query) ==
    /\ query.key \in DOMAIN connector.metadata
    /\ connector.metadata[query.key] = query.value

(***************************************************************************)
(* get_selected_connectors_with_modified_files                             *)
(***************************************************************************)
\* the override of lines 54-56 left out
EffectiveModified_NoOverride(a) == a.modified

\* lines 54-56: --metadata-changes-only overrides --modified
EffectiveModified(a) ==
    IF a.metadata_changes_only /\ ~a.modified THEN TRUE ELSE a.modified

selected_modified_connectors(a) ==
    IF EffectiveModified(a)
    THEN get_modified_connectors(a.modified_files, ALL_CONNECTORS, a.enable_dependency_scanning)
    ELSE {}

selected_connectors_by_name(a) ==
    {c \in ALL_CONNECTORS : c.technical_name \in a.selected_names}

selected_connectors_by_support_level(a) ==
    {c \in ALL_CONNECTORS : c.support_level \in a.selected_support_levels}

selected_connectors_by_language(a) ==
    {c \in ALL_CONNECTORS : c.language \in a.selected_languages}

selected_connectors_by_query(a) ==
    IF a.metadata_query.key # ""
    THEN {c \in ALL_CONNECTORS : metadata_query_match(c, a.metadata_query)}
    ELSE {}

selected_connectors_by_changelog_entry_files(a) ==
    IF a.with_changelog_entry_files
    THEN {c \in ALL_CONNECTORS : c.changelog_entry_files # {}}
    ELSE {}

\* the six candidate subsets, in the order of the list at lines 71-78
CandidateSets(a) ==
    <<selected_connectors_by_name(a),
      selected_connectors_by_support_level(a),
      selected_connectors_by_language(a),
      selected_connectors_by_query(a),
      selected_modified_connectors(a),
      selected_connectors_by_changelog_entry_files(a)>>

RECURSIVE SelectSeqNonEmpty(_)
SelectSeqNonEmpty(sets) ==
    IF sets = <<>> THEN <<>>
    ELSE IF Head(sets) # {}
         THEN <<Head(sets)>> \o SelectSeqNonEmpty(Tail(sets))
         ELSE SelectSeqNonEmpty(Tail(sets))

\* the filter `if connector_set` left out: every candidate set is intersected
non_empty_connector_sets_Unfiltered(a) == CandidateSets(a)

\* lines 69-80: the list comprehension keeps the sets that are truthy
non_empty_connector_sets(a) == SelectSeqNonEmpty(CandidateSets(a))

\* set.intersection(*sets) for a non-empty list of sets
RECURSIVE SetIntersection(_)
SetIntersection(sets) ==
    IF Len(sets) = 1 THEN Head(sets)
    ELSE Head(sets) \cap SetIntersection(Tail(sets))

\* line 82
selected_connectors(a) ==
    IF non_empty_connector_sets(a) # <<>>
    THEN SetIntersection(non_empty_connector_sets(a))
    ELSE {}

ConnectorWithModifiedFiles(connector, modified_files) ==
    [connector |-> connector,
     modified_files |-> get_connector_modified_files(connector, modified_files)]

\* lines 84-95. The code returns a list in the iteration order of a set; the
\* model keeps the list's elements, which are distinct.
get_selected_connectors_with_modified_files(a) ==
    {cwmf \in {ConnectorWithModifiedFiles(c, a.modified_files) : c \in selected_connectors(a)} :
        ~a.metadata_changes_only \/ has_metadata_change(cwmf)}

SelArgs ==
    [selected_names : BoundedSubsets(NameUniverse, MaxSelected),
     selected_support_levels : BoundedSubsets(SupportLevelUniverse, MaxSelected),
     selected_languages : BoundedSubsets(LanguageUniverse, MaxSelected),
     modified : BOOLEAN,
     metadata_changes_only : BOOLEAN,
     with_changelog_entry_files : BOOLEAN,
     metadata_query : QueryUniverse,
     modified_files : BoundedSubsets(RepoFiles, MaxModifiedFiles),
     enable_dependency_scanning : BOOLEAN]

SelInit ==
    /\ sel_pc = "ready"
    /\ sel_args \in SelArgs
    /\ sel_result = {}

\* one call of the filter on the drawn arguments
SelectCall ==
    /\ sel_pc = "ready"
    /\ sel_result' = get_selected_connectors_with_modified_files(sel_args)
    /\ sel_pc' = "returned"
    /\ UNCHANGED sel_args
    /\ UNCHANGED <<cmdVars, stVars>>

\* the filter is not in use (the other specifications)
SelIdle ==
    /\ sel_pc = "idle"
    /\ sel_args = [selected_names |-> {}, selected_support_levels |-> {},
                   selected_languages |-> {}, modified |-> FALSE,
                   metadata_changes_only |-> FALSE, with_changelog_entry_files |-> FALSE,
                   metadata_query |-> NoQuery, modified_files |-> {},
                   enable_dependency_scanning |-> FALSE]
    /\ sel_result = {}

(***************************************************************************)
(* validate_environment, should_use_remote_secrets and the connectors      *)
(* command.                                                                *)
(***************************************************************************)
GCP_GSM_CREDENTIALS == "GCP_GSM_CREDENTIALS"

\* lines 104-110, in the order of the list
required_env_vars_for_ci ==
    <<GCP_GSM_CREDENTIALS, "CI_REPORT_BUCKET_NAME", "CI_GITHUB_ACCESS_TOKEN",
      "DOCKER_HUB_USERNAME", "DOCKER_HUB_PASSWORD">>

EnvVarNames == {required_env_vars_for_ci[i] : i \in DOMAIN required_env_vars_for_ci}

\* os.getenv(name): None when the variable is absent, else its value
getenv(env, name) == env.vars[name]

\* bool(os.getenv(...)) with `is not None` in its place: an empty value counts
gcp_gsm_credentials_is_set_NotNone(env) == getenv(env, GCP_GSM_CREDENTIALS) # None

\* line 128: bool(os.getenv("GCP_GSM_CREDENTIALS")): None and "" are falsy
gcp_gsm_credentials_is_set(env) ==
    getenv(env, GCP_GSM_CREDENTIALS) \notin {None, ""}

\* lines 116-144. use_remote_secrets is "None", "True" or "False" (Optional[bool]);
\* the outcome is the returned bool, or "UsageError" when the call raises.
should_use_remote_secrets(use_remote_secrets, env) ==
    IF use_remote_secrets = None
    THEN IF gcp_gsm_credentials_is_set(env) THEN "True" ELSE "False"
    ELSE IF use_remote_secrets = "True"
         THEN IF gcp_gsm_credentials_is_set(env) THEN "True" ELSE "UsageError"
         ELSE "False"

\* lines 111-113: the first required variable that is absent, 0 when none is
RECURSIVE FirstMissing(_, _)
FirstMissing(env, i) ==
    IF i > Len(required_env_vars_for_ci) THEN 0
    ELSE IF getenv(env, required_env_vars_for_ci[i]) = None THEN i
         ELSE FirstMissing(env, i + 1)

\* validate_environment without the loop of lines 111-113
validate_environment_LocalOnly(is_local, env) ==
    IF is_local
    THEN IF ~env.git_is_dir THEN "UsageError: repository root" ELSE "ok"
    ELSE "ok"

\* lines 98-113: "ok", or the usage error raised
validate_environment(is_local, env) ==
    IF is_local
    THEN IF ~env.git_is_dir THEN "UsageError: repository root" ELSE "ok"
    ELSE IF FirstMissing(env, 1) # 0
         THEN "UsageError: " \o required_env_vars_for_ci[FirstMissing(env, 1)]
         ELSE "ok"

CmdContexts ==
    [use_remote_secrets : {None, "True", "False"},
     is_local : BOOLEAN,
     names : {{}, {"source-a"}},
     support_levels : {{}},
     languages : {{}, {"python"}},
     modified : BOOLEAN,
     metadata_changes_only : BOOLEAN,
     with_changelog_entry_files : {FALSE},
     metadata_query : {NoQuery},
     enable_dependency_scanning : {FALSE}]

CmdEnvironments ==
    [vars : {e \in [EnvVarNames -> {None, "", "value"}] :
                \A n \in EnvVarNames \ {GCP_GSM_CREDENTIALS} : e[n] # ""},
     git_is_dir : BOOLEAN]

NoOutput ==
    [use_remote_secrets |-> None, error |-> None, modified_files |-> {}, selected |-> {}]

CmdInit ==
    /\ cmd_pc = "invoked"
    /\ cmd_ctx \in CmdContexts
    /\ cmd_env \in CmdEnvironments
    /\ cmd_out = NoOutput
    /\ cmd_trace = <<>>

\* the command is not in use (the other specifications)
CmdIdle ==
    /\ cmd_pc = "idle"
    /\ cmd_ctx = [use_remote_secrets |-> None, is_local |-> TRUE, names |-> {},
                  support_levels |-> {}, languages |-> {}, modified |-> FALSE,
                  metadata_changes_only |-> FALSE, with_changelog_entry_files |-> FALSE,
                  metadata_query |-> NoQuery, enable_dependency_scanning |-> FALSE]
    /\ cmd_env = [vars |-> [n \in EnvVarNames |-> None], git_is_dir |-> TRUE]
    /\ cmd_out = NoOutput
    /\ cmd_trace = <<>>

\* line 155: click_append_to_context_object evaluates should_use_remote_secrets
\* and stores its value in ctx.obj before the body of the command runs
ResolveSecrets ==
    /\ cmd_pc = "invoked"
    /\ LET outcome == should_use_remote_secrets(cmd_ctx.use_remote_secrets, cmd_env)
       IN  IF outcome = "UsageError"
           THEN /\ cmd_out' = [cmd_out EXCEPT !.error = "UsageError: use_remote_secrets"]
                /\ cmd_pc' = "usage_error"
           ELSE /\ cmd_out' = [cmd_out EXCEPT !.use_remote_secrets = outcome]
                /\ cmd_pc' = "validate"
    /\ cmd_trace' = Append(cmd_trace, "should_use_remote_secrets")
    /\ UNCHANGED <<cmd_ctx, cmd_env>>
    /\ UNCHANGED <<selVars, stVars>>

\* line 162
ValidateEnvironment ==
    /\ cmd_pc = "validate"
    /\ LET outcome == validate_environment(cmd_ctx.is_local, cmd_env)
       IN  IF outcome = "ok"
           THEN /\ cmd_pc' = "diff"
                /\ UNCHANGED cmd_out
           ELSE /\ cmd_pc' = "usage_error"
                /\ cmd_out' = [cmd_out EXCEPT !.error = outcome]
    /\ cmd_trace' = Append(cmd_trace, "validate_environment")
    /\ UNCHANGED <<cmd_ctx, cmd_env>>
    /\ UNCHANGED <<selVars, stVars>>

\* lines 164-174: get_modified_files is called; the command is suspended on
\* the await until the diff is there
GetModifiedFiles ==
    /\ cmd_pc = "diff"
    /\ cmd_ctx.modified \/ cmd_ctx.metadata_changes_only
    /\ cmd_pc' = "await_diff"
    /\ cmd_trace' = Append(cmd_trace, "get_modified_files")
    /\ UNCHANGED <<cmd_ctx, cmd_env, cmd_out>>
    /\ UNCHANGED <<selVars, stVars>>

\* lines 166-174: the await completes with any set of files of the repository,
\* which transform_strs_to_paths turns into paths and line 166 binds
ModifiedFilesReturned ==
    /\ cmd_pc = "await_diff"
    /\ \E files \in BoundedSubsets(RepoFiles, MaxModifiedFiles) :
          cmd_out' = [cmd_out EXCEPT !.modified_files = files]
    /\ cmd_pc' = "select"
    /\ cmd_trace' = Append(cmd_trace, "get_modified_files returned")
    /\ UNCHANGED <<cmd_ctx, cmd_env>>
    /\ UNCHANGED <<selVars, stVars>>

\* lines 164-165: neither flag is set, modified_files stays []
SkipModifiedFiles ==
    /\ cmd_pc = "diff"
    /\ ~(cmd_ctx.modified \/ cmd_ctx.metadata_changes_only)
    /\ cmd_pc' = "select"
    /\ UNCHANGED <<cmd_ctx, cmd_env, cmd_out, cmd_trace>>
    /\ UNCHANGED <<selVars, stVars>>

\* lines 176-186
SelectConnectors ==
    /\ cmd_pc = "select"
    /\ cmd_out' = [cmd_out EXCEPT !.selected =
          get_selected_connectors_with_modified_files(
              [selected_names |-> cmd_ctx.names,
               selected_support_levels |-> cmd_ctx.support_levels,
               selected_languages |-> cmd_ctx.languages,
               modified |-> cmd_ctx.modified,
               metadata_changes_only |-> cmd_ctx.metadata_changes_only,
               with_changelog_entry_files |-> cmd_ctx.with_changelog_entry_files,
               metadata_query |-> cmd_ctx.metadata_query,
               modified_files |-> cmd_out.modified_files,
               enable_dependency_scanning |-> cmd_ctx.enable_dependency_scanning])]
    /\ cmd_pc' = "log"
    /\ cmd_trace' = Append(cmd_trace, "get_selected_connectors_with_modified_files")
    /\ UNCHANGED <<cmd_ctx, cmd_env>>
    /\ UNCHANGED <<selVars, stVars>>

\* line 187 and lines 21-26
LogSelectedConnectors ==
    /\ cmd_pc = "log"
    /\ cmd_pc' = "done"
    /\ cmd_trace' = Append(cmd_trace, "log_selected_connectors")
    /\ UNCHANGED <<cmd_ctx, cmd_env, cmd_out>>
    /\ UNCHANGED <<selVars, stVars>>

(***************************************************************************)
(* The Sponsored Products streams. A JSON object is a function from its    *)
(* keys; json.loads(json.dumps(x)) gives x back for the bodies built here  *)
(* (string keys; numbers, strings, null, lists and objects as values), so  *)
(* a request keeps its body as the object.                                 *)
(***************************************************************************)
HTTP_OK == 200
HTTP_BAD_REQUEST == 400
HTTP_UNPROCESSABLE_ENTITY == 422
HTTP_NOT_FOUND == 404

\* AmazonAdsStream.page_size
page_size == 100

SCOPE_HEADER == "Amazon-Advertising-API-Scope"

V3ListStreams ==
    {"campaigns", "ad_groups", "keywords", "negative_keywords",
     "campaign_negative_keywords", "product_ads", "targetings"}

SlicedStreams == {"bid_recommendations", "suggested_keywords"}

Streams == V3ListStreams \cup SlicedStreams

content_type(stream) ==
    CASE stream = "campaigns" -> "application/vnd.spCampaign.v3+json"
      [] stream = "ad_groups" -> "application/vnd.spAdGroup.v3+json"
      [] stream = "bid_recommendations" -> "application/vnd.spthemebasedbidrecommendation.v4+json"
      [] stream = "keywords" -> "application/vnd.spKeyword.v3+json"
      [] stream = "negative_keywords" -> "application/vnd.spNegativeKeyword.v3+json"
      [] stream = "campaign_negative_keywords" -> "application/vnd.spCampaignNegativeKeyword.v3+json"
      [] stream = "product_ads" -> "application/vnd.spProductAd.v3+json"
      [] stream = "targetings" -> "application/vnd.spTargetingClause.v3+json"
      [] OTHER -> "content type of the base class"

data_field(stream) ==
    CASE stream = "campaigns" -> "campaigns"
      [] stream = "ad_groups" -> "adGroups"
      [] stream = "bid_recommendations" -> "bidRecommendations"
      [] stream = "keywords" -> "keywords"
      [] stream = "negative_keywords" -> "negativeKeywords"
      [] stream = "campaign_negative_keywords" -> "campaignNegativeKeywords"
      [] stream = "product_ads" -> "productAds"
      [] stream = "targetings" -> "targetingClauses"
      [] OTHER -> "data field of the base class"

\* the path methods; the f-string of line 180 formats the ad group id
path(stream, stream_slice) ==
    CASE stream = "campaigns" -> "sp/campaigns/list"
      [] stream = "ad_groups" -> "/sp/adGroups/list"
      [] stream = "bid_recommendations" -> "/sp/targets/bid/recommendations"
      [] stream = "suggested_keywords" ->
            "v2/sp/adGroups/" \o ToString(stream_slice.adGroupId) \o "/suggested/keywords"
      [] stream = "keywords" -> "sp/keywords/list"
      [] stream = "negative_keywords" -> "sp/negativeKeywords/list"
      [] stream = "campaign_negative_keywords" -> "sp/campaignNegativeKeywords/list"
      [] stream = "product_ads" -> "sp/productAds/list"
      [] stream = "targetings" -> "sp/targets/list"

\* lines 36-38
http_method(stream) == "POST"

\* lines 40-44: the headers of the base class (the profile scope), then
\* Accept and Content-Type
request_headers(stream) ==
    [n \in {SCOPE_HEADER, "Accept", "Content-Type"} |->
        IF n = SCOPE_HEADER THEN "profile" ELSE content_type(stream)]

\* line 34: kwargs.get("config", {}).get("state_filter") is truthy when the
\* config holds a state_filter that is not an empty list
state_filter_is_truthy(config) ==
    /\ "state_filter" \in DOMAIN config
    /\ config.state_filter # <<>>

\* lines 51-59 with the token left out of the body
SponsoredProductsV3_request_body_json_NoToken(config, stream_slice, next_page_token) ==
    LET paging == [maxResults |-> page_size, nextToken |-> None]
    IN  IF state_filter_is_truthy(config)
        THEN paging @@ [stateFilter |-> [include |-> config.state_filter]]
        ELSE paging

\* lines 51-59
SponsoredProductsV3_request_body_json(config, stream_slice, next_page_token) ==
    LET paging == [maxResults |-> page_size, nextToken |-> next_page_token]
    IN  IF state_filter_is_truthy(config)
        THEN paging @@ [stateFilter |-> [include |-> config.state_filter]]
        ELSE paging

\* lines 152-161
BidRecommendations_request_body_json(config, stream_slice, next_page_token) ==
    [targetingExpressions |-> <<[type |-> "KEYWORD_BROAD_MATCH", value |-> "hello"]>>,
     adGroupId |-> stream_slice.adGroupId,
     campaignId |-> stream_slice.campaignId,
     recommendationType |-> "BIDS_FOR_EXISTING_AD_GROUP"]

\* the method resolution: only the bid recommendations override the body
request_body_json(stream, config, stream_slice, next_page_token) ==
    IF stream = "bid_recommendations"
    THEN BidRecommendations_request_body_json(config, stream_slice, next_page_token)
    ELSE SponsoredProductsV3_request_body_json(config, stream_slice, next_page_token)

\* the request of one page; slice_no (the number of the slice it is made
\* for, 0 inside stream_slices) is bookkeeping of the model
BuildRequest(cfg, stream, stream_slice, next_page_token, slice_no) ==
    [stream |-> stream,
     method |-> http_method(stream),
     path |-> path(stream, stream_slice),
     headers |-> request_headers(stream),
     body |-> request_body_json(stream, cfg.config, stream_slice, next_page_token),
     slice_no |-> slice_no]

(***************************************************************************)
(* The server: each list is a chain of pages, page i carrying the token of *)
(* page i + 1 and the last page no token (absent, or null). A request      *)
(* without a token in its body gets page 0.                                *)
(***************************************************************************)
TokenOfPage(i) == "T" \o ToString(i)

PageOfToken(token) == CHOOSE i \in 1..(MaxPages + MaxAdGroups) : TokenOfPage(i) = token

AdGroup(g) == [adGroupId |-> g, campaignId |-> 100 + g, state |-> "enabled"]

AdGroupPages(n) == IF n = 0 THEN 1 ELSE (n + AdGroupsPerPage - 1) \div AdGroupsPerPage

Min(a, b) == IF a <= b THEN a ELSE b

ServerPages(cfg, stream) ==
    IF stream = "ad_groups" THEN AdGroupPages(cfg.n_ad_groups) ELSE cfg.n_pages

ServerData(cfg, request, i) ==
    IF request.stream = "ad_groups"
    THEN [k \in 1..(Min((i + 1) * AdGroupsPerPage, cfg.n_ad_groups) - i * AdGroupsPerPage) |->
             AdGroup(i * AdGroupsPerPage + k)]
    ELSE <<[page |-> i, slice_no |-> request.slice_no]>>

RequestedPage(request) ==
    IF "nextToken" \in DOMAIN request.body /\ request.body.nextToken # None
    THEN PageOfToken(request.body.nextToken)
    ELSE 0

ServerBody(cfg, request) ==
    LET i == RequestedPage(request)
        data == data_field(request.stream) :> ServerData(cfg, request, i)
    IN  IF i + 1 < ServerPages(cfg, request.stream)
        THEN data @@ ("nextToken" :> TokenOfPage(i + 1))
        ELSE IF cfg.null_last THEN data @@ ("nextToken" :> None) ELSE data

StatusCodes == {100, 200, 204, 301, 400, 403, 404, 422, 500}

ResponseKinds ==
    {[status |-> s, json |-> TRUE] : s \in StatusCodes}
        \cup {[status |-> s, json |-> FALSE] : s \in {200, 404}}

NormalKind == [status |-> HTTP_OK, json |-> TRUE]

Respond(cfg, request, kind) ==
    [status_code |-> kind.status,
     is_json |-> kind.json,
     body |-> IF kind.json THEN ServerBody(cfg, request) ELSE "<html>",
     request |-> request]

(***************************************************************************)
(* Response handling.                                                      *)
(***************************************************************************)
\* requests.Response.raise_for_status raises for 4xx and 5xx only
raise_for_status_raises(response) ==
    response.status_code >= 400 /\ response.status_code < 600

\* requests.Response.__bool__ is Response.ok: raise_for_status does not raise
ResponseIsTruthy(response) == ~raise_for_status_raises(response)

\* lines 46-49: the token, or the exception of response.json()
next_page_token(response) ==
    IF ~ResponseIsTruthy(response) THEN [raised |-> None, value |-> None]
    ELSE IF ~response.is_json THEN [raised |-> "JSONDecodeError", value |-> None]
    ELSE IF "nextToken" \in DOMAIN response.body
         THEN [raised |-> None, value |-> response.body.nextToken]
         ELSE [raised |-> None, value |-> None]

Handled(items, warnings, raised) ==
    [items |-> items, warnings |-> warnings, raised |-> raised]

\* lines 107-137: the items yielded, the warnings logged and the exception
\* raised, if any. A 200 yields the parsed body and then falls through to
\* raise_for_status, which does not raise for it.
SlicedStream_parse_response(response) ==
    IF ~response.is_json THEN Handled(<<>>, <<>>, "JSONDecodeError")
    ELSE LET items == IF response.status_code = HTTP_OK THEN <<response.body>> ELSE <<>>
             status == response.status_code
         IN  IF status = HTTP_BAD_REQUEST
             THEN IF SCOPE_HEADER \in DOMAIN response.request.headers
                  THEN Handled(items, <<status>>, None)
                  ELSE Handled(items, <<>>, "KeyError")
             ELSE IF status = HTTP_UNPROCESSABLE_ENTITY
             THEN IF "adGroupId" \in DOMAIN response.request.body
                  THEN Handled(items, <<status>>, None)
                  ELSE Handled(items, <<>>, "KeyError")
             ELSE IF status = HTTP_NOT_FOUND
             THEN IF SCOPE_HEADER \in DOMAIN response.request.headers
                  THEN Handled(items, <<status>>, None)
                  ELSE Handled(items, <<>>, "KeyError")
             ELSE IF raise_for_status_raises(response)
                  THEN Handled(items, <<>>, "HTTPError")
                  ELSE Handled(items, <<>>, None)

\* parse_response of the streams that inherit it from the base class: a 200
\* yields the records of the data field, 400, 404 and 422 are skipped with a
\* warning, another 2xx yields nothing, every other status raises
BaseStream_parse_response(stream, response) ==
    LET status == response.status_code
    IN  IF status = HTTP_OK
        THEN IF response.is_json
             THEN Handled(response.body[data_field(stream)], <<>>, None)
             ELSE Handled(<<>>, <<>>, "JSONDecodeError")
        ELSE IF status \in {HTTP_BAD_REQUEST, HTTP_NOT_FOUND, HTTP_UNPROCESSABLE_ENTITY}
        THEN Handled(<<>>, <<status>>, None)
        ELSE IF status >= 200 /\ status < 300
        THEN Handled(<<>>, <<>>, None)
        ELSE Handled(<<>>, <<>>, "HTTPError")

parse_response(stream, response) ==
    IF stream \in SlicedStreams
    THEN SlicedStream_parse_response(response)
    ELSE BaseStream_parse_response(stream, response)

\* `if not next_page_token` of the pagination loop
TokenIsFalsy(token) == token \in {None, ""}

\* what handling one response did: parse_response, then next_page_token
HandleResponse(stream, response) ==
    LET out == parse_response(stream, response)
        tok == IF out.raised = None THEN next_page_token(response)
               ELSE [raised |-> None, value |-> None]
    IN  [status_code |-> response.status_code,
         is_json |-> response.is_json,
         slice_no |-> response.request.slice_no,
         stream |-> response.request.stream,
         items |-> out.items,
         warnings |-> out.warnings,
         raised |-> IF out.raised # None THEN out.raised ELSE tok.raised,
         token |-> tok.value]

(***************************************************************************)
(* One read of a stream: for each slice of stream_slices, the pagination   *)
(* loop of read_records.                                                   *)
(***************************************************************************)
StreamConfigs ==
    {cfg \in [stream : Streams,
              config : {[region |-> "NA"],
                        [region |-> "NA", state_filter |-> <<>>],
                        [region |-> "NA", state_filter |-> <<"enabled", "paused">>]},
              n_pages : 1..MaxPages,
              n_ad_groups : 0..MaxAdGroups,
              null_last : BOOLEAN] :
        /\ cfg.stream = "ad_groups" => cfg.n_pages = 1
        /\ cfg.stream \in V3ListStreams \ {"ad_groups"} => cfg.n_ad_groups = 0}

NoResponse == [status_code |-> 0, is_json |-> FALSE, body |-> "", request |-> None]

NewAdGroupsRead == [buffer |-> <<>>, token |-> None, complete |-> FALSE]

StInit ==
    /\ st_pc = "slices"
    /\ st_cfg \in StreamConfigs
    /\ st_slice = None
    /\ st_slice_no = 0
    /\ st_token = None
    /\ st_response = NoResponse
    /\ st_ag = NewAdGroupsRead
    /\ st_requests = <<>>
    /\ st_parsed = <<>>
    /\ st_yielded = <<>>
    /\ st_slices = <<>>
    /\ st_faults = 0

\* no stream is read (the other specifications)
StIdle ==
    /\ st_pc = "idle"
    /\ st_cfg = [stream |-> "campaigns", config |-> [region |-> "NA"], n_pages |-> 1,
                 n_ad_groups |-> 0, null_last |-> FALSE]
    /\ st_slice = None
    /\ st_slice_no = 0
    /\ st_token = None
    /\ st_response = NoResponse
    /\ st_ag = NewAdGroupsRead
    /\ st_requests = <<>>
    /\ st_parsed = <<>>
    /\ st_yielded = <<>>
    /\ st_slices = <<>>
    /\ st_faults = 0

\* the server answers as its data says, or with one of the other responses
KindAllowed(kind) == kind = NormalKind \/ st_faults < MaxFaults

FaultsAfter(kind) == IF kind = NormalKind THEN st_faults ELSE st_faults + 1

\* the slice stream_slices yields next, reversed
NextAdGroupSlice_Last(ag) == ag.buffer[Len(ag.buffer)]

\* lines 100-105: `yield from` hands on the ad groups in the order of the
\* ad-groups read
NextAdGroupSlice(ag) == Head(ag.buffer)

\* Stream.stream_slices of the streams that do not override it: [None]
TakeDefaultSlice ==
    /\ st_pc = "slices"
    /\ st_cfg.stream \notin SlicedStreams
    /\ st_slice_no = 0
    /\ st_slice' = None
    /\ st_slice_no' = 1
    /\ st_slices' = Append(st_slices, None)
    /\ st_token' = None
    /\ st_pc' = "send"
    /\ UNCHANGED <<st_cfg, st_response, st_ag, st_requests, st_parsed, st_yielded, st_faults>>
    /\ UNCHANGED <<selVars, cmdVars>>

\* lines 100-105, the generator resumed while the ad-groups read has no
\* record at hand: the ad-groups read requests its next page and handles
\* the response (read_records of SponsoredProductAdGroups)
AdGroupsRequest ==
    /\ st_pc = "slices"
    /\ st_cfg.stream \in SlicedStreams
    /\ st_ag.buffer = <<>>
    /\ ~st_ag.complete
    /\ Len(st_requests) < MaxRequests
    /\ \E kind \in ResponseKinds :
        /\ KindAllowed(kind)
        /\ LET request == BuildRequest(st_cfg, "ad_groups", None, st_ag.token, 0)
               handled == HandleResponse("ad_groups", Respond(st_cfg, request, kind))
           IN  /\ st_requests' = Append(st_requests, request)
               /\ st_parsed' = Append(st_parsed, handled)
               /\ st_faults' = FaultsAfter(kind)
               /\ IF handled.raised # None
                  THEN /\ st_pc' = "failed"
                       /\ UNCHANGED st_ag
                  ELSE /\ st_pc' = "slices"
                       /\ st_ag' = [buffer |-> handled.items,
                                    token |-> handled.token,
                                    complete |-> TokenIsFalsy(handled.token)]
    /\ UNCHANGED <<st_cfg, st_slice, st_slice_no, st_token, st_response, st_yielded, st_slices>>
    /\ UNCHANGED <<selVars, cmdVars>>

\* lines 100-105, the generator resumed with a record at hand: the record is
\* the next slice
TakeAdGroupSlice ==
    /\ st_pc = "slices"
    /\ st_cfg.stream \in SlicedStreams
    /\ st_ag.buffer # <<>>
    /\ st_slice' = NextAdGroupSlice(st_ag)
    /\ st_slice_no' = st_slice_no + 1
    /\ st_slices' = Append(st_slices, NextAdGroupSlice(st_ag))
    /\ st_ag' = [st_ag EXCEPT !.buffer = Tail(st_ag.buffer)]
    /\ st_token' = None
    /\ st_pc' = "send"
    /\ UNCHANGED <<st_cfg, st_response, st_requests, st_parsed, st_yielded, st_faults>>
    /\ UNCHANGED <<selVars, cmdVars>>

\* stream_slices is exhausted: the read ends
SlicesExhausted ==
    /\ st_pc = "slices"
    /\ IF st_cfg.stream \in SlicedStreams
       THEN st_ag.buffer = <<>> /\ st_ag.complete
       ELSE st_slice_no = 1
    /\ st_pc' = "done"
    /\ UNCHANGED <<st_cfg, st_slice, st_slice_no, st_token, st_response, st_ag,
                   st_requests, st_parsed, st_yielded, st_slices, st_faults>>
    /\ UNCHANGED <<selVars, cmdVars>>

\* the pagination loop requests a page of the current slice
SendRequest ==
    /\ st_pc = "send"
    /\ Len(st_requests) < MaxRequests
    /\ \E kind \in ResponseKinds :
        /\ KindAllowed(kind)
        /\ LET request == BuildRequest(st_cfg, st_cfg.stream, st_slice, st_token, st_slice_no)
           IN  /\ st_requests' = Append(st_requests, request)
               /\ st_response' = Respond(st_cfg, request, kind)
               /\ st_faults' = FaultsAfter(kind)
    /\ st_pc' = "parse"
    /\ UNCHANGED <<st_cfg, st_slice, st_slice_no, st_token, st_ag, st_parsed, st_yielded, st_slices>>
    /\ UNCHANGED <<selVars, cmdVars>>

\* the pagination loop yields what parse_response yields, asks for the next
\* page token and goes on with the next page or the next slice
ParseResponse ==
    /\ st_pc = "parse"
    /\ LET handled == HandleResponse(st_cfg.stream, st_response)
       IN  /\ st_parsed' = Append(st_parsed, handled)
           /\ st_yielded' = st_yielded \o handled.items
           /\ IF handled.raised # None
              THEN /\ st_pc' = "failed"
                   /\ UNCHANGED st_token
              ELSE IF TokenIsFalsy(handled.token)
              THEN /\ st_pc' = "slices"
                   /\ UNCHANGED st_token
              ELSE /\ st_pc' = "send"
                   /\ st_token' = handled.token
    /\ UNCHANGED <<st_cfg, st_slice, st_slice_no, st_response, st_ag, st_requests, st_slices, st_faults>>
    /\ UNCHANGED <<selVars, cmdVars>>

StreamNext ==
    \/ TakeDefaultSlice
    \/ AdGroupsRequest
    \/ TakeAdGroupSlice
    \/ SlicesExhausted
    \/ SendRequest
    \/ ParseResponse

StreamInit == SelIdle /\ CmdIdle /\ StInit

StreamSpec == StreamInit /\ [][StreamNext]_vars

Init == SelInit /\ CmdIdle /\ StIdle

Next == SelectCall

Spec == Init /\ [][Next]_vars

CmdNext ==
    \/ ResolveSecrets
    \/ ValidateEnvironment
    \/ GetModifiedFiles
    \/ ModifiedFilesReturned
    \/ SkipModifiedFiles
    \/ SelectConnectors
    \/ LogSelectedConnectors

CmdSpecInit == SelIdle /\ CmdInit /\ StIdle

CmdSpec == CmdSpecInit /\ [][CmdNext]_vars

(***************************************************************************)
(* Claims about the selection filter (specification Spec).                 *)
(***************************************************************************)
Returned == sel_pc = "returned"

ReturnedConnectors == {r.connector : r \in sel_result}

\* the six candidate subsets as the claims name them, each with whether its
\* criterion was supplied
CriterionSubsets(a) ==
    {[criterion |-> "name", supplied |-> a.selected_names # {},
      subset |-> {c \in ALL_CONNECTORS : c.technical_name \in a.selected_names}],
     [criterion |-> "support_level", supplied |-> a.selected_support_levels # {},
      subset |-> {c \in ALL_CONNECTORS : c.support_level \in a.selected_support_levels}],
     [criterion |-> "language", supplied |-> a.selected_languages # {},
      subset |-> {c \in ALL_CONNECTORS : c.language \in a.selected_languages}],
     [criterion |-> "query", supplied |-> a.metadata_query # NoQuery,
      subset |-> IF a.metadata_query # NoQuery
                 THEN {c \in ALL_CONNECTORS : metadata_query_match(c, a.metadata_query)}
                 ELSE {}],
     [criterion |-> "modified", supplied |-> a.modified,
      subset |-> IF a.modified
                 THEN get_modified_connectors(a.modified_files, ALL_CONNECTORS,
                                              a.enable_dependency_scanning)
                 ELSE {}],
     [criterion |-> "changelog_entry_files", supplied |-> a.with_changelog_entry_files,
      subset |-> IF a.with_changelog_entry_files
                 THEN {c \in ALL_CONNECTORS : c.changelog_entry_files # {}}
                 ELSE {}]}

HasFileUnder(connector, files) ==
    \E f \in files : IsRelativeTo(f, connector.relative_connector_path)

\* C1: with metadata_changes_only false, the returned connectors are exactly
\* the connectors that lie in every non-empty candidate subset, provided one
\* candidate subset is non-empty; when none is non-empty (in particular when
\* no criterion is supplied) the result is empty; when exactly one criterion
\* is supplied the result is that criterion's subset.
C1_IntersectionOfNonEmptySubsets ==
    (Returned /\ ~sel_args.metadata_changes_only) =>
        LET crit == CriterionSubsets(sel_args)
            nonEmpty == {k \in crit : k.subset # {}}
            supplied == {k \in crit : k.supplied}
        IN  /\ \A c \in ALL_CONNECTORS :
                  c \in ReturnedConnectors <=>
                      (nonEmpty # {} /\ \A k \in nonEmpty : c \in k.subset)
            /\ nonEmpty = {} => sel_result = {}
            /\ supplied = {} => sel_result = {}
            /\ Cardinality(supplied) = 1 =>
                  \A k \in supplied : ReturnedConnectors = k.subset

\* C1's case: two criteria with different non-empty subsets and a third,
\* supplied criterion whose subset is empty; the result is a proper,
\* non-empty part of the registry
C1_Witness ==
    /\ Returned
    /\ ~sel_args.metadata_changes_only
    /\ sel_args.selected_names = {"source-ghost"}
    /\ sel_args.selected_languages = {"python"}
    /\ sel_args.modified
    /\ sel_args.modified_files = {<<"connectors", "source-a", "main.py">>}
    /\ ReturnedConnectors = {ConnectorA}

\* C2: every returned connector satisfies every attribute criterion that was
\* supplied (names, support levels, languages, metadata query, changelog
\* entry files), for all inputs.
C2_SuppliedCriteriaHold ==
    Returned =>
        \A r \in sel_result :
            /\ sel_args.selected_names # {} =>
                  r.connector.technical_name \in sel_args.selected_names
            /\ sel_args.selected_support_levels # {} =>
                  r.connector.support_level \in sel_args.selected_support_levels
            /\ sel_args.selected_languages # {} =>
                  r.connector.language \in sel_args.selected_languages
            /\ sel_args.metadata_query # NoQuery =>
                  metadata_query_match(r.connector, sel_args.metadata_query)
            /\ sel_args.with_changelog_entry_files =>
                  r.connector.changelog_entry_files # {}

\* C3: when the modified criterion is in force (modified or
\* metadata_changes_only), every returned connector has a modified file
\* under its path. Stated for dependency scanning off (the default of the
\* parameter), where the modified subset holds only connectors with a
\* changed file of their own; the claim, made for every call, fails there.
C3_ModifiedOnlyWithOwnFiles ==
    (/\ Returned
     /\ sel_args.modified \/ sel_args.metadata_changes_only
     /\ ~sel_args.enable_dependency_scanning) =>
        \A r \in sel_result : HasFileUnder(r.connector, sel_args.modified_files)

\* C4: with metadata_changes_only true the result is the same for
\* modified = false and modified = true, it is the intersection computed
\* with modified = true restricted to the connectors whose own modified
\* files hold a metadata file, and so every returned connector has a
\* modified metadata file under its path.
C4_MetadataChangesOnly ==
    (Returned /\ sel_args.metadata_changes_only) =>
        LET forced == [sel_args EXCEPT !.modified = TRUE]
            flipped == [sel_args EXCEPT !.modified = ~sel_args.modified]
            crit == {k \in CriterionSubsets(forced) : k.subset # {}}
            inter == {c \in ALL_CONNECTORS : crit # {} /\ \A k \in crit : c \in k.subset}
            OwnMetadataFile(c) ==
                \E f \in sel_args.modified_files :
                    /\ IsRelativeTo(f, c.relative_connector_path)
                    /\ f[Len(f)] = METADATA_FILE_NAME
        IN  /\ sel_result = get_selected_connectors_with_modified_files(flipped)
            /\ ReturnedConnectors = {c \in inter : OwnMetadataFile(c)}
            /\ \A r \in sel_result : OwnMetadataFile(r.connector)

\* C4's case: modified is false, metadata_changes_only is true, and of two
\* modified connectors only the one with a changed metadata file is returned
C4_Witness ==
    /\ Returned
    /\ sel_args.metadata_changes_only
    /\ ~sel_args.modified
    /\ sel_args.modified_files =
          {<<"connectors", "source-a", "main.py">>,
           <<"connectors", "source-b", "metadata.yaml">>}
    /\ ReturnedConnectors = {ConnectorB}

(***************************************************************************)
(* Claims about the secrets policy (specification CmdSpec).                *)
(***************************************************************************)
SecretsResolved == cmd_pc \notin {"idle", "invoked"}

\* what the resolution left behind: the stored bool, or the usage error
SecretsOutcome ==
    IF cmd_out.error = "UsageError: use_remote_secrets" THEN "UsageError"
    ELSE cmd_out.use_remote_secrets

\* C5: the decision table of should_use_remote_secrets, where credentials are
\* present when GCP_GSM_CREDENTIALS is set to a non-empty value (absent and
\* empty both count as not present): an unset flag gives true exactly when
\* credentials are present; an explicit true gives true with credentials and
\* otherwise raises a usage error and stores no value; an explicit false
\* gives false whatever the credentials.
C5_SecretsDecisionTable ==
    SecretsResolved =>
        LET flag == cmd_ctx.use_remote_secrets
            cred == cmd_env.vars[GCP_GSM_CREDENTIALS]
            want == CASE flag = None /\ cred = "value" -> "True"
                      [] flag = None /\ cred = "" -> "False"
                      [] flag = None /\ cred = None -> "False"
                      [] flag = "True" /\ cred = "value" -> "True"
                      [] flag = "True" /\ cred = "" -> "UsageError"
                      [] flag = "True" /\ cred = None -> "UsageError"
                      [] flag = "False" -> "False"
        IN  /\ SecretsOutcome = want
            /\ want = "UsageError" =>
                  /\ cmd_pc = "usage_error"
                  /\ cmd_out.use_remote_secrets = None

\* C5's case: --use-remote-secrets given while GCP_GSM_CREDENTIALS is set but
\* empty: the call raised
C5_Witness ==
    /\ cmd_pc = "usage_error"
    /\ cmd_ctx.use_remote_secrets = "True"
    /\ cmd_env.vars[GCP_GSM_CREDENTIALS] = ""
    /\ cmd_out.error = "UsageError: use_remote_secrets"
    /\ cmd_trace = <<"should_use_remote_secrets">>

(***************************************************************************)
(* Claims about the streams (specification StreamSpec).                    *)
(***************************************************************************)
Range(seq) == {seq[i] : i \in DOMAIN seq}

RECURSIVE Flatten(_)
Flatten(seqs) == IF seqs = <<>> THEN <<>> ELSE Head(seqs) \o Flatten(Tail(seqs))

\* the responses handled so far, each with its request
HandledIndices == DOMAIN st_parsed

SlicedIndices == {i \in HandledIndices : st_parsed[i].stream \in SlicedStreams}

SkipStatuses == {HTTP_BAD_REQUEST, HTTP_NOT_FOUND, HTTP_UNPROCESSABLE_ENTITY}

\* the earlier requests of the same stream for the same slice
EarlierOfSlice(i) ==
    {m \in 1..(i - 1) :
        /\ st_requests[m].stream = st_requests[i].stream
        /\ st_requests[m].slice_no = st_requests[i].slice_no}

MaxOf(S) == CHOOSE x \in S : \A y \in S : y <= x

\* the token the preceding response of the same slice returned, None for
\* the first request of a slice
PrecedingToken(i) ==
    IF EarlierOfSlice(i) = {} THEN None ELSE st_parsed[MaxOf(EarlierOfSlice(i))].token

\* C6: in the two ad-group-sliced streams a 200 yields exactly one item, the
\* parsed body, and a 400, 404 or 422 yields no record, logs one warning and
\* raises nothing, so that the read goes on with the next slice. Stated for
\* the responses whose body is JSON, a part of the bodies the claim covers.
C6_SkipStatusesAreSkipped ==
    \A i \in SlicedIndices :
        st_parsed[i].is_json =>
            /\ st_parsed[i].status_code = HTTP_OK =>
                  /\ st_parsed[i].items = <<ServerBody(st_cfg, st_requests[i])>>
                  /\ st_parsed[i].raised = None
            /\ st_parsed[i].status_code \in SkipStatuses =>
                  /\ st_parsed[i].items = <<>>
                  /\ st_parsed[i].warnings = <<st_parsed[i].status_code>>
                  /\ st_parsed[i].raised = None
                  /\ i = Len(st_parsed) => st_pc = "slices"

\* C7: in the ad-group-sliced streams a response whose status is neither
\* 2xx nor 400, 404, 422 raises an exception and yields no record.
C7_OtherStatusesRaise ==
    \A i \in SlicedIndices :
        (/\ ~(st_parsed[i].status_code >= 200 /\ st_parsed[i].status_code < 300)
         /\ st_parsed[i].status_code \notin SkipStatuses) =>
            /\ st_parsed[i].raised # None
            /\ st_parsed[i].items = <<>>

\* the j-th request of a slice asks for page j - 1 of the chain
AsksNextPageOfChain(i) ==
    /\ RequestedPage(st_requests[i]) = Cardinality(EarlierOfSlice(i))
    /\ Cardinality(EarlierOfSlice(i)) < ServerPages(st_cfg, st_requests[i].stream)

\* the records a read without faults yields: for a list stream the records
\* of the pages in order, for a sliced stream the page bodies of slice 1,
\* then those of slice 2, and so on
ExpectedYield ==
    IF st_cfg.stream \in SlicedStreams
    THEN [k \in 1..(st_cfg.n_ad_groups * st_cfg.n_pages) |->
            LET p == (k - 1) % st_cfg.n_pages
                s == ((k - 1) \div st_cfg.n_pages) + 1
                data == data_field(st_cfg.stream) :> <<[page |-> p, slice_no |-> s]>>
            IN  IF p + 1 < st_cfg.n_pages
                THEN data @@ ("nextToken" :> TokenOfPage(p + 1))
                ELSE IF st_cfg.null_last THEN data @@ ("nextToken" :> None) ELSE data]
    ELSE IF st_cfg.stream = "ad_groups"
    THEN [g \in 1..st_cfg.n_ad_groups |-> AdGroup(g)]
    ELSE [k \in 1..st_cfg.n_pages |-> [page |-> k - 1, slice_no |-> 1]]

\* C8: for every stream, next_page_token is None when the response carries
\* no token (absent or null) or is an error response; no request of a slice
\* follows a response without token; and against a server whose pages form a
\* chain (a read without faults) the requests of a slice ask for the pages
\* of the chain one after the other, one request per page, and the finished
\* read has yielded every page once, in order.
C8_PaginationFollowsChain ==
    /\ \A i \in HandledIndices :
          (/\ st_parsed[i].raised = None
           /\ \/ st_parsed[i].status_code >= 400
              \/ "nextToken" \notin DOMAIN ServerBody(st_cfg, st_requests[i])
              \/ ServerBody(st_cfg, st_requests[i]).nextToken = None) =>
              st_parsed[i].token = None
    /\ \A i \in DOMAIN st_requests :
          EarlierOfSlice(i) # {} => PrecedingToken(i) # None
    /\ st_faults = 0 =>
          /\ \A i \in DOMAIN st_requests : AsksNextPageOfChain(i)
          /\ st_pc = "done" => st_yielded = ExpectedYield

\* the body of request i is the paged body of the claim
BodyIsPaged(i) ==
    LET body == st_requests[i].body
    IN  /\ "maxResults" \in DOMAIN body
        /\ body.maxResults = page_size
        /\ "nextToken" \in DOMAIN body
        /\ body.nextToken = PrecedingToken(i)
        /\ "stateFilter" \in DOMAIN body <=>
              ("state_filter" \in DOMAIN st_cfg.config /\ st_cfg.config.state_filter # <<>>)
        /\ "stateFilter" \in DOMAIN body =>
              body.stateFilter = [include |-> st_cfg.config.state_filter]

AdGroupRequestIndices == {i \in DOMAIN st_requests : st_requests[i].stream = "ad_groups"}

SubResourceRequestIndices ==
    {i \in DOMAIN st_requests : st_requests[i].stream \in SlicedStreams}

\* the records the ad-groups read has yielded to stream_slices or holds ready
AdGroupRecordsRead ==
    Flatten([i \in 1..Len(st_parsed) |->
                IF st_parsed[i].stream = "ad_groups" THEN st_parsed[i].items ELSE <<>>])

SlicesAreAdGroupRecords == st_slices \o st_ag.buffer = AdGroupRecordsRead

MissingRepositoryRoot == cmd_ctx.is_local /\ ~cmd_env.git_is_dir

\* non-local mode, and one of the five variables is not in the environment
MissingRequiredEnvVar ==
    /\ ~cmd_ctx.is_local
    /\ \E n \in {"GCP_GSM_CREDENTIALS", "CI_REPORT_BUCKET_NAME", "CI_GITHUB_ACCESS_TOKEN",
                  "DOCKER_HUB_USERNAME", "DOCKER_HUB_PASSWORD"} : cmd_env.vars[n] = None

\* --use-remote-secrets given without usable credentials
InconsistentSecretsFlag ==
    /\ cmd_ctx.use_remote_secrets = "True"
    /\ cmd_env.vars["GCP_GSM_CREDENTIALS"] \in {None, ""}

UsageErrorDue == MissingRepositoryRoot \/ MissingRequiredEnvVar \/ InconsistentSecretsFlag

\* the calls that are work: the diff, the selection filter, the log of it
WorkCalls ==
    {"get_modified_files", "get_modified_files returned",
     "get_selected_connectors_with_modified_files", "log_selected_connectors"}

\* the positions of a call in the trace
TraceIndices(call) == {i \in DOMAIN cmd_trace : cmd_trace[i] = call}

ChecksDone == cmd_pc \notin {"idle", "invoked", "validate"}

\* C11: every usage error of the connectors command is raised before any
\* work starts. A missing repository root in local mode, one of the five
\* required variables absent in non-local mode, or a --use-remote-secrets
\* flag without credentials in either mode, makes the command end in a usage
\* error with neither get_modified_files nor the selection filter called;
\* the command raises a usage error in no other case and never after work
\* has started; and when the checks pass, the diff is computed exactly when
\* modified or metadata_changes_only is set, and has returned before the
\* filter is invoked.
C11_UsageErrorsBeforeWork ==
    /\ UsageErrorDue => Range(cmd_trace) \cap WorkCalls = {}
    /\ (UsageErrorDue /\ ChecksDone) =>
          /\ cmd_pc = "usage_error"
          /\ cmd_out.error # None
    /\ cmd_pc = "usage_error" =>
          /\ UsageErrorDue
          /\ Range(cmd_trace) \cap WorkCalls = {}
          /\ cmd_out.selected = {}
    /\ cmd_out.error # None => cmd_pc = "usage_error"
    /\ \A s \in TraceIndices("get_selected_connectors_with_modified_files") :
          /\ ~UsageErrorDue
          /\ {cmd_trace[i] : i \in 1..(s - 1)} \cap
                {"get_selected_connectors_with_modified_files", "log_selected_connectors"} = {}
          /\ IF cmd_ctx.modified \/ cmd_ctx.metadata_changes_only
             THEN \E c, r \in 1..(s - 1) :
                     /\ c < r
                     /\ cmd_trace[c] = "get_modified_files"
                     /\ cmd_trace[r] = "get_modified_files returned"
             ELSE /\ TraceIndices("get_modified_files") = {}
                  /\ cmd_out.modified_files = {}
    /\ \A c \in TraceIndices("get_modified_files") :
          /\ ~UsageErrorDue
          /\ \E v \in 1..(c - 1) : cmd_trace[v] = "validate_environment"
          /\ \E v \in 1..(c - 1) : cmd_trace[v] = "should_use_remote_secrets"

\* C11's case: a CI run with only DOCKER_HUB_PASSWORD, the last variable
\* looked at, absent, and --modified asking for the diff: the command ended
\* in the usage error right after the two checks
C11_Witness ==
    /\ cmd_pc = "usage_error"
    /\ ~cmd_ctx.is_local
    /\ cmd_ctx.modified
    /\ \A n \in EnvVarNames : (cmd_env.vars[n] = None) <=> (n = "DOCKER_HUB_PASSWORD")
    /\ cmd_out.error = "UsageError: DOCKER_HUB_PASSWORD"
    /\ cmd_trace = <<"should_use_remote_secrets", "validate_environment">>

====
